---- MODULE Spec2Model ----
(***************************************************************************)
(* A model of the jradiance storefront: the client-side cart hook          *)
(* (src/hooks/useCart.ts) as used by the product cards and the cart page,  *)
(* the cart validation endpoint (api/validate-cart-total), the checkout    *)
(* orchestrator (api/process-checkout), the checkout page                  *)
(* (app/checkout/page.tsx) and the image endpoints (api/upload-image,      *)
(* api/delete-image) with the file host they talk to.                      *)
(*                                                                         *)
(* Prices are whole currency units; the code's floating point sums are     *)
(* exact on such values.                                                   *)
(***************************************************************************)
EXTENDS Integers, Sequences, FiniteSets, TLC

(***************************************************************************)
(* Bounds of the model.                                                    *)
(***************************************************************************)
\* largest quantity an entry is driven to
MaxQty == 2
\* how many values below 1 the quantity input takes (0, -1, ...)
MaxBelowOne == 2

ProductIds == {"p1", "p2"}
Prices == {500, 700}
QtyInputs == (1 - MaxBelowOne)..MaxQty

\* The name a product row carries.
ProductName(id) == IF id = "p1" THEN "soap" ELSE "oil"

\* Pick<ProductRow, 'id' | 'name' | 'price'>: what a card passes to addToCart.
ProductProps == [id : ProductIds, name : {"soap", "oil"}, price : Prices]

\* localStorage as the values of its one key "jradiance-cart": the empty
\* sequence when the key is absent (getItem returns null), else the one
\* stored string.
Null == <<>>

\* The components of a route that call useCart(): the home page renders one
\* ProductCard per product, the cart page is one component.
CardA == "cardA"
CardB == "cardB"
CartPage == "cartPage"
CheckoutPage == "checkoutPage"
AccountPanel == "accountPanel"
Instances == {CardA, CardB, CartPage, CheckoutPage, AccountPanel}
Pages == {"home", "cart", "checkout", "account"}

VARIABLES
    page,        \* the route the browser shows
    cart,        \* cart[c]: the useState value of instance c's useCart()
    totalOrder,  \* totalOrder[c]: the total instance c's last render returned
    storage,     \* localStorage["jradiance-cart"]: Null or the stored cart
    lastCall,    \* history: the last cart operation, its arguments and the
                 \* cart of the calling instance before it
    added        \* history: the products added and not removed since

VARIABLES
    products,    \* the products table: id -> [price, is_active, is_deleted]
    users,       \* the authentication accounts: records [id, email]
    profiles,    \* the profiles table: records [id, email, role]
    orders,      \* the orders table, rows in insertion order
    emails,      \* the password-set emails sent, in order
    log,         \* what console.error has written
    req          \* req[r]: checkout request r, its locals and its response

VARIABLES
    vcart,       \* the cart a validation request carries
    vfetch,      \* whether the price fetch of that request fails
    vresp        \* the response of the validation endpoint

VARIABLES
    imagesDir,   \* whether /public/images exists on the file host
    ftpFiles,    \* the files on the file host: records [dir, name]
    ureq,        \* the upload request, its locals and its response
    dreq         \* the delete request, its locals and its response

VARIABLES
    qcart,       \* the cart page's cart, its quantities counted in tenths
    qtyped       \* the text last typed into a quantity input

VARIABLES
    form,        \* the checkout page's form state
    loading,     \* the checkout page's loading state
    sub          \* the last checkout submission: what handleSubmit closed
                 \* over, where it is, what it has done and alerted

VARIABLES
    mreq,        \* the request the session middleware last handled
    mresp        \* the response the session middleware gave to it

VARIABLES
    dbImages,    \* dbImages[id]: the images column of product id
    task,        \* task[t]: one running call of the image utilities
    comp         \* the state of the ProductImageUpload component

cartVars == <<page, cart, totalOrder, storage, lastCall, added>>
checkoutVars == <<users, profiles, orders, emails, log, req>>
validateVars == <<vcart, vfetch, vresp>>
imageVars == <<imagesDir, ftpFiles, ureq, dreq>>
quantityVars == <<qcart, qtyped>>
submitVars == <<form, loading, sub>>
vars == <<page, cart, totalOrder, storage, lastCall, added, products,
          users, profiles, orders, emails, log, req, vcart, vfetch, vresp,
          imagesDir, ftpFiles, ureq, dreq, qcart, qtyped,
          form, loading, sub, mreq, mresp, dbImages, task, comp>>

\* what the actions of one component leave alone
exceptCart ==
    <<products, checkoutVars, validateVars, imageVars, quantityVars,
      mreq, mresp, dbImages, task, comp>>
exceptValidate ==
    <<cartVars, products, checkoutVars, imageVars, quantityVars, submitVars,
      mreq, mresp, dbImages, task, comp>>
exceptCheckout ==
    <<cartVars, products, validateVars, imageVars, quantityVars, submitVars,
      mreq, mresp, dbImages, task, comp>>
exceptImages ==
    <<cartVars, products, checkoutVars, validateVars, quantityVars, submitVars,
      mreq, mresp, dbImages, task, comp>>
exceptQuantity ==
    <<cartVars, products, checkoutVars, validateVars, imageVars, submitVars,
      mreq, mresp, dbImages, task, comp>>
exceptSubmit ==
    <<products, checkoutVars, validateVars, imageVars, quantityVars,
      mreq, mresp, dbImages, task, comp>>
exceptMiddleware ==
    <<cartVars, products, checkoutVars, validateVars, imageVars,
      quantityVars, submitVars, dbImages, task, comp>>
exceptUtils ==
    <<cartVars, products, checkoutVars, validateVars, imageVars,
      quantityVars, submitVars, mreq, mresp>>

(***************************************************************************)
(* Sequence helpers (Array.prototype.find / map / filter / reduce).        *)
(***************************************************************************)
\* prev.find((item) => item.productId === id) is not undefined
HasItem(c, id) == \E i \in 1..Len(c) : c[i].productId = id

(***************************************************************************)
(* useCart                                                                 *)
(***************************************************************************)
\* The product the card instance c renders.
CardProduct(c) == IF c = CardA THEN "p1" ELSE "p2"

\* The instances the current route has mounted.
MountedOn(p) ==
    CASE p = "home" -> {CardA, CardB}
      [] p = "cart" -> {CartPage}
      [] p = "checkout" -> {CheckoutPage}
      [] p = "account" -> {AccountPanel}
Mounted == MountedOn(page)

\* JSON.stringify(cart): every entry keeps its four fields.
JSONStringify(c) ==
    [i \in 1..Len(c) |->
        [productId |-> c[i].productId, name |-> c[i].name,
         price |-> c[i].price, quantity |-> c[i].quantity]]

\* JSON.parse(storedCart)
JSONParse(s) ==
    [i \in 1..Len(s) |->
        [productId |-> s[i].productId, name |-> s[i].name,
         price |-> s[i].price, quantity |-> s[i].quantity]]

\* First effect: the cart an instance holds after it mounted.
LoadCart(st) == IF st # Null THEN JSONParse(st[1]) ELSE <<>>

\* Second effect: what the storage holds after a render with cart c.
FirstOnlyPersist(st, c) ==
    IF Len(c) > 0 /\ st = Null THEN <<JSONStringify(c)>> ELSE st

Persist(st, c) == IF Len(c) > 0 THEN <<JSONStringify(c)>> ELSE st

\* addToCart's updater
AppendAddToCartUpdater(prev, product) ==
    prev \o <<[productId |-> product.id, name |-> product.name,
               price |-> product.price, quantity |-> 1]>>

RepriceAddToCartUpdater(prev, product) ==
    IF HasItem(prev, product.id)
    THEN [i \in 1..Len(prev) |->
            IF prev[i].productId = product.id
            THEN [prev[i] EXCEPT !.quantity = prev[i].quantity + 1,
                                 !.price = product.price]
            ELSE prev[i]]
    ELSE prev \o <<[productId |-> product.id, name |-> product.name,
                    price |-> product.price, quantity |-> 1]>>

addToCartUpdater(prev, product) ==
    IF HasItem(prev, product.id)
    THEN [i \in 1..Len(prev) |->
            IF prev[i].productId = product.id
            THEN [prev[i] EXCEPT !.quantity = prev[i].quantity + 1]
            ELSE prev[i]]
    ELSE prev \o <<[productId |-> product.id, name |-> product.name,
                    price |-> product.price, quantity |-> 1]>>

\* removeFromCart's updater
removeFromCartUpdater(prev, productId) ==
    SelectSeq(prev, LAMBDA item : item.productId # productId)

\* updateQuantity's updater
KeepZeroUpdateQuantityUpdater(prev, productId, quantity) ==
    [i \in 1..Len(prev) |->
        IF prev[i].productId = productId
        THEN [prev[i] EXCEPT !.quantity = quantity]
        ELSE prev[i]]

updateQuantityUpdater(prev, productId, quantity) ==
    IF quantity < 1
    THEN removeFromCartUpdater(prev, productId)
    ELSE [i \in 1..Len(prev) |->
            IF prev[i].productId = productId
            THEN [prev[i] EXCEPT !.quantity = quantity]
            ELSE prev[i]]

\* cart.reduce((sum, item) => sum + item.price * item.quantity, 0)
RECURSIVE Reduce(_, _)
Reduce(c, sum) ==
    IF c = <<>> THEN sum
    ELSE Reduce(Tail(c), sum + Head(c).price * Head(c).quantity)

\* The total a render of an instance returns.
StaleRenderTotal(old, c) == old

RenderTotal(old, c) == Reduce(c, 0)

\* One state update of instance c followed by its re-render and the
\* persistence effect.
SetCart(c, next) ==
    /\ cart' = [cart EXCEPT ![c] = next]
    /\ totalOrder' = [totalOrder EXCEPT ![c] = RenderTotal(totalOrder[c], next)]
    /\ storage' = Persist(storage, next)
    /\ page' = page
    /\ UNCHANGED submitVars
    /\ UNCHANGED exceptCart

\* The record of a call of operation op by instance c.
Call(op, c, productId, price, quantity) ==
    [op |-> op, c |-> c, productId |-> productId, price |-> price,
     quantity |-> quantity, prev |-> IF c \in Instances THEN cart[c] ELSE <<>>]

\* useState({ name: '', email: '', phone: '', address: '' })
BlankForm == [name |-> "", email |-> "", phone |-> ""]

\* A route is (re)loaded: its components mount, load the stored cart, render
\* and run the persistence effect. The components of the route left are
\* gone with their state; what an earlier handleSubmit closed over stays.
Navigate(to) ==
    /\ page' = to
    /\ cart' = [c \in Instances |->
                  IF c \in MountedOn(to) THEN LoadCart(storage) ELSE <<>>]
    /\ totalOrder' = [c \in Instances |->
                  IF c \in MountedOn(to)
                  THEN RenderTotal(0, LoadCart(storage)) ELSE 0]
    /\ storage' = Persist(storage, LoadCart(storage))
    /\ lastCall' = Call("navigate", "none", "none", 0, 0)
    /\ added' = added
    /\ form' = BlankForm
    /\ loading' = FALSE
    /\ sub' = [sub EXCEPT !.attached = FALSE]
    /\ UNCHANGED exceptCart

\* A product card's "Add to Cart" button.
AddToCart(c, product) ==
    /\ c \in Mounted \cap {CardA, CardB}
    /\ product.id = CardProduct(c)
    /\ product.name = ProductName(product.id)
    /\ \A i \in 1..Len(cart[c]) :
          cart[c][i].productId = product.id => cart[c][i].quantity < MaxQty
    /\ SetCart(c, addToCartUpdater(cart[c], product))
    /\ lastCall' = Call("addToCart", c, product.id, product.price, 0)
    /\ added' = added \cup {product.id}

\* The cart page's trash button.
RemoveFromCart(c, productId) ==
    /\ c \in Mounted \cap {CartPage}
    /\ SetCart(c, removeFromCartUpdater(cart[c], productId))
    /\ lastCall' = Call("removeFromCart", c, productId, 0, 0)
    /\ added' = added \ {productId}

\* The cart page's quantity input.
UpdateQuantity(c, productId, quantity) ==
    /\ c \in Mounted \cap {CartPage}
    /\ SetCart(c, updateQuantityUpdater(cart[c], productId, quantity))
    /\ lastCall' = Call("updateQuantity", c, productId, 0, quantity)
    /\ added' = IF quantity < 1 THEN added \ {productId} ELSE added

(***************************************************************************)
(* The products table                                                      *)
(***************************************************************************)
ProductRows == [price : Prices, is_active : BOOLEAN, is_deleted : BOOLEAN]
Catalogs == [ProductIds -> ProductRows]

\* .in("id", productIds).eq("is_active", true).eq("is_deleted", false)
SelectActive(prods, productIds) ==
    {id \in productIds \cap DOMAIN prods :
        prods[id].is_active /\ ~prods[id].is_deleted}

(***************************************************************************)
(* api/validate-cart-total                                                 *)
(***************************************************************************)
\* A product id no row of the products table has.
UnknownProduct == "px"
\* longest cart a validation request carries
MaxCartLen == 2

\* The entries a client sends: the id, the price the client holds, a quantity.
ValidationItems ==
    [productId : ProductIds \cup {UnknownProduct}, price : Prices,
     quantity : 1..MaxQty]
ValidationCarts ==
    UNION {[1..n -> ValidationItems] : n \in 0..MaxCartLen}

NoTotal == 0 - 1
NoResponse == [status |-> 0, validatedTotal |-> NoTotal, error |-> "",
               productId |-> ""]

\* the loop over the cart, from entry i on with validatedTotal so far
RECURSIVE ClientPriceLoop(_, _, _, _, _)
ClientPriceLoop(c, prods, typedProducts, i, validatedTotal) ==
    IF i > Len(c)
    THEN [status |-> 200, validatedTotal |-> validatedTotal, error |-> "",
          productId |-> ""]
    ELSE IF c[i].productId \in typedProducts
    THEN ClientPriceLoop(c, prods, typedProducts, i + 1,
                      validatedTotal + c[i].price * c[i].quantity)
    ELSE [status |-> 400, validatedTotal |-> NoTotal,
          error |-> "Product not found", productId |-> c[i].productId]

RECURSIVE SkipMissingLoop(_, _, _, _, _)
SkipMissingLoop(c, prods, typedProducts, i, validatedTotal) ==
    IF i > Len(c)
    THEN [status |-> 200, validatedTotal |-> validatedTotal, error |-> "",
          productId |-> ""]
    ELSE IF c[i].productId \in typedProducts
    THEN SkipMissingLoop(c, prods, typedProducts, i + 1,
                      validatedTotal + prods[c[i].productId].price * c[i].quantity)
    ELSE SkipMissingLoop(c, prods, typedProducts, i + 1, validatedTotal)

RECURSIVE ValidateLoop(_, _, _, _, _)
ValidateLoop(c, prods, typedProducts, i, validatedTotal) ==
    IF i > Len(c)
    THEN [status |-> 200, validatedTotal |-> validatedTotal, error |-> "",
          productId |-> ""]
    ELSE IF c[i].productId \in typedProducts
    THEN ValidateLoop(c, prods, typedProducts, i + 1,
                      validatedTotal + prods[c[i].productId].price * c[i].quantity)
    ELSE [status |-> 400, validatedTotal |-> NoTotal,
          error |-> "Product not found", productId |-> c[i].productId]

\* The response of POST for a request carrying cart c.
ValidateCartTotal(c, prods, fetchError) ==
    IF fetchError
    THEN [status |-> 500, validatedTotal |-> NoTotal,
          error |-> "Failed to fetch prices", productId |-> ""]
    ELSE ValidateLoop(c, prods,
                      SelectActive(prods, {c[i].productId : i \in 1..Len(c)}),
                      1, 0)

\* One request is received and answered.
ValidatePOST(c, fetchError) ==
    /\ vresp = NoResponse
    /\ vcart' = c
    /\ vfetch' = fetchError
    /\ vresp' = ValidateCartTotal(c, products, fetchError)
    /\ UNCHANGED exceptValidate

(***************************************************************************)
(* The checkout page                                                       *)
(***************************************************************************)
\* what the user types into a field of the form
Fields == {"name", "email", "phone"}
FieldValues(field) ==
    CASE field = "name" -> {"", "Ada"}
      [] field = "email" -> {"", " ", "ada@x.io"}
      [] field = "phone" -> {"", "080"}

\* String.prototype.trim()
NoTrim(text) == text

Trim(text) == IF text = " " THEN "" ELSE text

\* response.reference of the payment popup
PopupRefs == {"jr-1"}

IdleSubmission ==
    [pc |-> "idle", cart |-> <<>>, total |-> 0, attached |-> FALSE,
     validations |-> 0, validated |-> NoResponse, popups |-> 0,
     requests |-> 0, ref |-> "", response |-> "none", alert |-> ""]

Abs(x) == IF x < 0 THEN 0 - x ELSE x

\* Math.abs(validatedTotal - totalOrder) > 0.01, on whole amounts
NeverTotalsMismatch(validatedTotal, total) == FALSE

TotalsMismatch(validatedTotal, total) ==
    Abs(validatedTotal - total) * 100 > 1

\* the submission when its handlers have returned: what it closed over is
\* gone, what it did stays on record
Finished(answer, alert) ==
    [IdleSubmission EXCEPT !.pc = "done", !.response = answer,
                           !.alert = alert,
                           !.validations = sub.validations,
                           !.popups = sub.popups, !.requests = sub.requests]

\* setLoading(value) of the page that submitted: nothing when it is gone
SetLoading(value) == IF sub.attached THEN value ELSE loading

\* handleChange
HandleChange(field, value) ==
    /\ page = "checkout"
    /\ Len(cart[CheckoutPage]) > 0
    /\ form' = [form EXCEPT ![field] = value]
    /\ UNCHANGED <<loading, sub>>
    /\ UNCHANGED cartVars
    /\ UNCHANGED exceptSubmit

\* handleSubmit up to the first await; the button is disabled while loading
HandleSubmit ==
    /\ page = "checkout"
    /\ Len(cart[CheckoutPage]) > 0
    /\ ~loading
    /\ sub.pc \in {"idle", "done"}
    /\ IF Trim(form.name) = "" \/ Trim(form.email) = "" \/ Trim(form.phone) = ""
       THEN /\ sub' = [IdleSubmission EXCEPT
                          !.pc = "done",
                          !.alert = "Please fill in Name, Email, and Phone."]
            /\ loading' = loading
       ELSE /\ loading' = TRUE
            /\ sub' = [IdleSubmission EXCEPT
                          !.pc = "validating", !.cart = cart[CheckoutPage],
                          !.total = totalOrder[CheckoutPage],
                          !.attached = TRUE, !.validations = 1]
    /\ form' = form
    /\ UNCHANGED cartVars
    /\ UNCHANGED exceptSubmit

\* the catch block of handleSubmit
CatchSubmit ==
    /\ loading' = SetLoading(FALSE)
    /\ sub' = Finished("none", "An error occurred. Please try again.")

\* handleSubmit from the answer of the validation request to its end
ValidateAnswered(networkError, fetchError, popupLoaded) ==
    /\ sub.pc = "validating"
    /\ LET res == ValidateCartTotal(sub.cart, products, fetchError)
       IN  IF networkError
           THEN CatchSubmit
           ELSE IF res.status # 200
           THEN CatchSubmit
           ELSE IF TotalsMismatch(res.validatedTotal, sub.total)
           THEN /\ loading' = SetLoading(FALSE)
                /\ sub' = Finished("none",
                       "Cart total mismatch. Please refresh your cart.")
           ELSE IF ~popupLoaded
           THEN CatchSubmit
           ELSE /\ sub' = [sub EXCEPT !.pc = "popup", !.validated = res,
                                      !.popups = @ + 1]
                /\ loading' = loading
    /\ form' = form
    /\ UNCHANGED cartVars
    /\ UNCHANGED exceptSubmit

\* onClose of the popup
PopupClose ==
    /\ sub.pc = "popup"
    /\ loading' = SetLoading(FALSE)
    /\ sub' = Finished("none", "")
    /\ form' = form
    /\ UNCHANGED cartVars
    /\ UNCHANGED exceptSubmit

\* onSuccess of the popup up to its await
PopupSuccess(reference) ==
    /\ sub.pc = "popup"
    /\ sub' = [sub EXCEPT !.pc = "processing", !.ref = reference,
                          !.requests = @ + 1]
    /\ UNCHANGED <<form, loading>>
    /\ UNCHANGED cartVars
    /\ UNCHANGED exceptSubmit

\* localStorage.removeItem('jradiance-cart')
RemoveItem(st) == Null

\* onSuccess from the answer of process-checkout on: "ok", "error" (a
\* response that is not ok) or "rejected" (the fetch itself failed).
\* router.push('/account') asks for a navigation, which is a later Navigate.
ProcessAnswered(answer) ==
    /\ sub.pc = "processing"
    /\ sub' = Finished(answer,
                       IF answer = "error"
                       THEN "Payment processed but order failed." ELSE "")
    /\ storage' = IF answer = "ok" THEN RemoveItem(storage) ELSE storage
    /\ UNCHANGED <<form, loading>>
    /\ UNCHANGED <<page, cart, totalOrder, lastCall, added>>
    /\ UNCHANGED exceptSubmit

(***************************************************************************)
(* api/process-checkout                                                    *)
(***************************************************************************)
Requests == {"r1", "r2"}
Emails == {"ada@x.io", "bee@x.io"}
PaymentRefs == {"ref1", "ref2"}
\* a total a tampering client sends instead of the total of its cart
TamperedTotal == 1

NoUser == 0
NoError == [isError |-> FALSE, message |-> ""]

\* What the provider answers to transaction/verify: status false, or status
\* true with the transaction's state; "throw" is the fetch itself failing.
PaystackOutcomes ==
    {"success", "failed", "pending", "abandoned", "status_false", "throw"}
PaystackData(out) ==
    [status |-> out # "status_false",
     data_status |-> IF out = "status_false" THEN "" ELSE out]

\* !paystackData.status || paystackData.data.status !== "success"
StatusOnlyPaymentRejected(paystackData) == ~paystackData.status

PaymentRejected(paystackData) ==
    \/ ~paystackData.status
    \/ paystackData.data_status # "success"

\* The carts and totals a checkout request carries.
CheckoutItems ==
    [productId : {"p1"}, name : {"soap"}, price : {500}, quantity : 1..MaxQty]
CheckoutCarts == {<<item>> : item \in CheckoutItems}
CheckoutInputs ==
    UNION {{[cart |-> c, email |-> e, payment_ref |-> ref, total |-> t] :
               e \in Emails, ref \in PaymentRefs,
               t \in {TamperedTotal, Reduce(c, 0)}} : c \in CheckoutCarts}

IdleRequest ==
    [pc |-> "idle", cart |-> <<>>, email |-> "", payment_ref |-> "",
     total |-> 0, paystack |-> "", listed |-> {}, targetUser |-> NoUser,
     status |-> 0, error |-> "", thrown |-> NoError,
     newUser |-> NoUser, newProfile |-> NoUser, emailed |-> 0, order |-> 0,
     calls |-> <<>>, failed |-> {}]

\* users.find((u) => u.email === form.email)
FirstFindUser(us, email) ==
    IF \E u \in us : u.email = email
    THEN (CHOOSE u \in us : \A v \in us : u.id >= v.id).id
    ELSE NoUser

FindUser(us, email) ==
    IF \E u \in us : u.email = email
    THEN (CHOOSE u \in us : u.email = email).id
    ELSE NoUser

\* the id the authentication service gives the next account
NewUserId(us) == Cardinality(us) + 1

\* the catch block: the message of the response and of the log line
CatchMessage(error) ==
    IF error.isError THEN error.message ELSE "Unknown error"

\* call: the awaited call whose failure was thrown
Catch(r, call, error) ==
    /\ req' = [req EXCEPT ![r].pc = "done", ![r].status = 500,
                          ![r].error = CatchMessage(error),
                          ![r].thrown = error,
                          ![r].calls = Append(@, call),
                          ![r].failed = @ \cup {call}]
    /\ log' = log \cup {CatchMessage(error)}

\* const { cart, form, payment_ref, total } = await req.json()
Receive(r, in) ==
    /\ req[r].pc = "idle"
    /\ req' = [req EXCEPT ![r].pc = "verify", ![r].cart = in.cart,
                          ![r].email = in.email,
                          ![r].payment_ref = in.payment_ref,
                          ![r].total = in.total]
    /\ UNCHANGED <<users, profiles, orders, emails, log>>
    /\ UNCHANGED exceptCheckout

\* STEP 1: verify the payment
VerifyPayment(r, out) ==
    /\ req[r].pc = "verify"
    /\ IF out = "throw"
       THEN Catch(r, "verify", [isError |-> TRUE, message |-> "fetch failed"])
       ELSE /\ req' = IF PaymentRejected(PaystackData(out))
                      THEN [req EXCEPT ![r].pc = "done", ![r].status = 400,
                                       ![r].paystack = out,
                                       ![r].error = "Payment verification failed",
                                       ![r].calls = Append(@, "verify")]
                      ELSE [req EXCEPT ![r].pc = "list", ![r].paystack = out,
                                       ![r].calls = Append(@, "verify")]
            /\ log' = log
    /\ UNCHANGED <<users, profiles, orders, emails>>
    /\ UNCHANGED exceptCheckout

\* if (!targetUser) { create, profile, email }: the step after the lookup
AlwaysEmailAfterLookup(targetUser) ==
    IF targetUser = NoUser THEN "create" ELSE "email"

AfterLookup(targetUser) ==
    IF targetUser = NoUser THEN "create" ELSE "order"

\* STEP 2: auth.admin.listUsers() and users.find
ListUsers(r, listError) ==
    /\ req[r].pc = "list"
    /\ IF listError
       THEN Catch(r, "list", [isError |-> TRUE, message |-> "listUsers: bad JWT"])
       ELSE /\ req' = [req EXCEPT
                         ![r].calls = Append(@, "list"),
                         ![r].listed = users,
                         ![r].targetUser = FindUser(users, req[r].email),
                         ![r].pc = AfterLookup(FindUser(users, req[r].email))]
            /\ log' = log
    /\ UNCHANGED <<users, profiles, orders, emails>>
    /\ UNCHANGED exceptCheckout

\* auth.admin.createUser: the service refuses an email it already has
CreateUser(r, createError) ==
    /\ req[r].pc = "create"
    /\ IF createError \/ FindUser(users, req[r].email) # NoUser
       THEN /\ Catch(r, "create",
                     [isError |-> TRUE,
                      message |-> IF createError
                                  THEN "createUser: service unavailable"
                                  ELSE "createUser: email_exists"])
            /\ users' = users
       ELSE /\ users' = users \cup
                  {[id |-> NewUserId(users), email |-> req[r].email]}
            /\ req' = [req EXCEPT ![r].pc = "profile",
                                  ![r].calls = Append(@, "create"),
                                  ![r].targetUser = NewUserId(users),
                                  ![r].newUser = NewUserId(users)]
            /\ log' = log
    /\ UNCHANGED <<profiles, orders, emails>>
    /\ UNCHANGED exceptCheckout

\* STEP 3: insert the profile row; isError: whether the client library's
\* error object is an instance of Error
InsertProfile(r, profileError, isError) ==
    /\ req[r].pc = "profile"
    /\ IF profileError \/ \E p \in profiles : p.id = req[r].targetUser
       THEN /\ Catch(r, "profile",
                     [isError |-> isError,
                      message |-> IF profileError
                                  THEN "profiles: service unavailable"
                                  ELSE "profiles: duplicate key"])
            /\ profiles' = profiles
       ELSE /\ profiles' = profiles \cup
                  {[id |-> req[r].targetUser, email |-> req[r].email,
                    role |-> "customer"]}
            /\ req' = [req EXCEPT ![r].pc = "email",
                                  ![r].calls = Append(@, "profile"),
                                  ![r].newProfile = req[r].targetUser]
            /\ log' = log
    /\ UNCHANGED <<users, orders, emails>>
    /\ UNCHANGED exceptCheckout

\* STEP 4: resetPasswordForEmail; the { data, error } it resolves to is not
\* looked at, so the handler goes on to STEP 5 whether or not the service
\* sent the email
SendWelcomeEmail(r, emailError) ==
    /\ req[r].pc = "email"
    /\ IF emailError
       THEN /\ emails' = emails
            /\ req' = [req EXCEPT ![r].pc = "order",
                                  ![r].calls = Append(@, "email"),
                                  ![r].failed = @ \cup {"email"}]
       ELSE /\ emails' = Append(emails, req[r].email)
            /\ req' = [req EXCEPT ![r].pc = "order",
                                  ![r].calls = Append(@, "email"),
                                  ![r].emailed = Len(emails) + 1]
    /\ UNCHANGED <<users, profiles, orders, log>>
    /\ UNCHANGED exceptCheckout

\* the row STEP 5 inserts
NoRefOrderData(r) ==
    [user_id |-> req[r].targetUser, payment_ref |-> "",
     total_amount |-> req[r].total, items |-> req[r].cart,
     status |-> "pending"]

OrderData(r) ==
    [user_id |-> req[r].targetUser, payment_ref |-> req[r].payment_ref,
     total_amount |-> req[r].total, items |-> req[r].cart,
     status |-> "pending"]

\* what the orders table asks of a new row: orders_user_id_fkey references
\* profiles(id); the table has no constraint on payment_ref
AnyOrderAccepted(row) == TRUE

UniqueRefOrderAccepted(row) ==
    /\ \E p \in profiles : p.id = row.user_id
    /\ \A i \in 1..Len(orders) : orders[i].payment_ref # row.payment_ref

OrderAccepted(row) == \E p \in profiles : p.id = row.user_id

\* STEP 5: insert the order
InsertOrder(r, orderError, isError) ==
    /\ req[r].pc = "order"
    /\ IF orderError \/ ~OrderAccepted(OrderData(r))
       THEN /\ Catch(r, "order",
                     [isError |-> isError,
                      message |-> IF orderError
                                  THEN "orders: service unavailable"
                                  ELSE "orders: violates constraint"])
            /\ orders' = orders
       ELSE /\ orders' = Append(orders, OrderData(r))
            /\ req' = [req EXCEPT ![r].pc = "done", ![r].status = 200,
                                  ![r].calls = Append(@, "order"),
                                  ![r].order = Len(orders) + 1]
            /\ log' = log
    /\ UNCHANGED <<users, profiles, emails>>
    /\ UNCHANGED exceptCheckout

(***************************************************************************)
(* api/upload-image and api/delete-image                                   *)
(*                                                                         *)
(* A string is a sequence of pieces; "/" and "." are pieces of their own,  *)
(* so that split("/") and split(".") are computed on it.                   *)
(***************************************************************************)
\* process.env.NAMECHEAP_IMAGE_URL, as the setup guide configures it
BaseUrl == <<"https:", "/", "/", "yourdomain.com", "/", "images", "/">>

ImagesDir == "/public/images"
\* the directory an FTP session starts in
LoginDir == "/"

\* s.split(sep).pop(): the pieces after the last sep
RECURSIVE LastSegment(_, _)
LastSegment(s, sep) ==
    IF s = <<>> \/ s[Len(s)] = sep THEN <<>>
    ELSE LastSegment(SubSeq(s, 1, Len(s) - 1), sep) \o <<s[Len(s)]>>

\* toLowerCase()
ToLowerCase(s) ==
    [i \in 1..Len(s) |->
        IF s[i] = "PNG" THEN "png" ELSE IF s[i] = "JPG" THEN "jpg" ELSE s[i]]

\* file.name.split(".").pop()?.toLowerCase() || "jpg"
Extension(name) ==
    IF ToLowerCase(LastSegment(name, ".")) = <<>>
    THEN <<"jpg">>
    ELSE ToLowerCase(LastSegment(name, "."))

\* `img_${timestamp}_${random}.${extension}`
Filename(timestamp, random, name) ==
    <<"img_", timestamp, "_", random, ".">> \o Extension(name)

\* const maxSize = 5 * 1024 * 1024
MaxSize == 5 * 1024 * 1024

AllowedTypes == {"image/jpeg", "image/png", "image/webp", "image/gif"}

\* formData.get("file") when the form has no such field
NoFile == [name |-> <<>>, type |-> "", size |-> 0]
FileNames ==
    {<<"photo", ".", "PNG">>, <<"photo">>, <<"photo", ".">>,
     <<"a", ".", "b", "/", "c">>}
UploadFiles ==
    {NoFile} \cup
    [name : FileNames, type : AllowedTypes \cup {"application/pdf"},
     size : {1, MaxSize, MaxSize + 1}]
Timestamps == {"1705", "1706"}
Randoms == {"abc123"}

\* a request without url
NoUrl == <<>>
\* an image that is on the host from the start
OldFilename == <<"img_", "1705", "_", "abc123", ".", "png">>

IdleUpload ==
    [pc |-> "idle", file |-> NoFile, filename |-> <<>>, cwd |-> LoginDir,
     status |-> 0, url |-> <<>>, trace |-> <<>>]
IdleDelete ==
    [pc |-> "idle", url |-> NoUrl, filename |-> <<>>, status |-> 0,
     trace |-> <<>>, removed |-> {}]

\* the three checks of POST before the file is read
InclusiveRejectsFile(file) ==
    \/ file = NoFile
    \/ file.type \notin AllowedTypes
    \/ file.size >= MaxSize

RejectsFile(file) ==
    \/ file = NoFile
    \/ file.type \notin AllowedTypes
    \/ file.size > MaxSize

\* POST up to c.connect(config)
UploadPOST(file, timestamp, random) ==
    /\ ureq.pc = "idle"
    /\ ureq' = IF RejectsFile(file)
               THEN [ureq EXCEPT !.pc = "done", !.file = file, !.status = 400]
               ELSE [ureq EXCEPT !.pc = "connecting", !.file = file,
                        !.filename = Filename(timestamp, random, file.name),
                        !.trace = <<"connect">>]
    /\ UNCHANGED <<imagesDir, ftpFiles, dreq>>
    /\ UNCHANGED exceptImages

\* the "ready" event calls c.cwd; the "error" event rejects
UploadReady(connected) ==
    /\ ureq.pc = "connecting"
    /\ ureq' = IF connected
               THEN [ureq EXCEPT !.pc = "cwd", !.trace = Append(@, "cwd")]
               ELSE [ureq EXCEPT !.pc = "done", !.status = 500]
    /\ UNCHANGED <<imagesDir, ftpFiles, dreq>>
    /\ UNCHANGED exceptImages

\* the callback of c.cwd: uploadFile(), or c.mkdir when the directory is absent
UploadCwdDone ==
    /\ ureq.pc = "cwd"
    /\ ureq' = IF imagesDir
               THEN [ureq EXCEPT !.pc = "put", !.cwd = ImagesDir,
                                 !.trace = Append(@, "put")]
               ELSE [ureq EXCEPT !.pc = "mkdir", !.trace = Append(@, "mkdir")]
    /\ UNCHANGED <<imagesDir, ftpFiles, dreq>>
    /\ UNCHANGED exceptImages

\* the callback of c.mkdir: uploadFile() in the directory the session is in
\* (mkdir does not change it), or c.end() and reject
UploadMkdirDone(created) ==
    /\ ureq.pc = "mkdir"
    /\ IF created /\ ~imagesDir
       THEN /\ imagesDir' = TRUE
            /\ ureq' = [ureq EXCEPT !.pc = "put", !.trace = Append(@, "put")]
       ELSE /\ imagesDir' = imagesDir
            /\ ureq' = [ureq EXCEPT !.pc = "done", !.status = 500,
                                    !.trace = Append(@, "end")]
    /\ UNCHANGED <<ftpFiles, dreq>>
    /\ UNCHANGED exceptImages

\* the callback of c.put: the host stores the file in the session's
\* directory; a name with "/" names a directory the host does not have
UploadPutDone(stored) ==
    /\ ureq.pc = "put"
    /\ IF stored /\ \A i \in 1..Len(ureq.filename) : ureq.filename[i] # "/"
       THEN /\ ftpFiles' = ftpFiles \cup
                   {[dir |-> ureq.cwd, name |-> ureq.filename]}
            /\ ureq' = [ureq EXCEPT !.pc = "done", !.status = 200,
                                    !.url = BaseUrl \o ureq.filename,
                                    !.trace = Append(@, "end")]
       ELSE /\ ftpFiles' = ftpFiles
            /\ ureq' = [ureq EXCEPT !.pc = "done", !.status = 500,
                                    !.trace = Append(@, "end")]
    /\ UNCHANGED <<imagesDir, dreq>>
    /\ UNCHANGED exceptImages

\* the urls a delete request carries
DeleteUrls ==
    {NoUrl, BaseUrl, BaseUrl \o OldFilename} \cup
    (IF ureq.status = 200 THEN {ureq.url} ELSE {})

WholeUrlFilename(url) == url

\* url.split("/").pop()
UrlFilename(url) == LastSegment(url, "/")

\* POST of delete-image up to c.connect(config)
DeletePOST(url) ==
    /\ dreq.pc = "idle"
    /\ dreq' = IF url = NoUrl \/ UrlFilename(url) = <<>>
               THEN [dreq EXCEPT !.pc = "done", !.url = url, !.status = 400]
               ELSE [dreq EXCEPT !.pc = "connecting", !.url = url,
                                 !.filename = UrlFilename(url),
                                 !.trace = <<"connect">>]
    /\ UNCHANGED <<imagesDir, ftpFiles, ureq>>
    /\ UNCHANGED exceptImages

DeleteReady(connected) ==
    /\ dreq.pc = "connecting"
    /\ dreq' = IF connected
               THEN [dreq EXCEPT !.pc = "cwd", !.trace = Append(@, "cwd")]
               ELSE [dreq EXCEPT !.pc = "done", !.status = 500]
    /\ UNCHANGED <<imagesDir, ftpFiles, ureq>>
    /\ UNCHANGED exceptImages

\* the callback of c.cwd: c.delete, or c.end() and reject
DeleteCwdDone ==
    /\ dreq.pc = "cwd"
    /\ dreq' = IF imagesDir
               THEN [dreq EXCEPT !.pc = "delete", !.trace = Append(@, "delete")]
               ELSE [dreq EXCEPT !.pc = "done", !.status = 500,
                                 !.trace = Append(@, "end")]
    /\ UNCHANGED <<imagesDir, ftpFiles, ureq>>
    /\ UNCHANGED exceptImages

\* the callback of c.delete: the host removes the file of that name from the
\* session's directory when it has one
DeleteDone(deleted) ==
    /\ dreq.pc = "delete"
    /\ IF deleted /\ [dir |-> ImagesDir, name |-> dreq.filename] \in ftpFiles
       THEN /\ ftpFiles' = ftpFiles \
                   {[dir |-> ImagesDir, name |-> dreq.filename]}
            /\ dreq' = [dreq EXCEPT !.pc = "done", !.status = 200,
                           !.removed = {[dir |-> ImagesDir,
                                         name |-> dreq.filename]},
                           !.trace = Append(@, "end")]
       ELSE /\ ftpFiles' = ftpFiles
            /\ dreq' = [dreq EXCEPT !.pc = "done", !.status = 500,
                                    !.trace = Append(@, "end")]
    /\ UNCHANGED <<imagesDir, ureq>>
    /\ UNCHANGED exceptImages

(***************************************************************************)
(* The cart page's quantity input with the values a number input can hold. *)
(* A number input holds decimals too, so here a number is counted in       *)
(* tenths: 1 is One, 1.5 is 15.                                            *)
(***************************************************************************)
One == 10

\* e.target.value of <input type="number">
TypedValues == {"", "0", "1", "2", "0.5", "1.5", "2.5", "-1"}

\* Number(e.target.value), in tenths
Number(text) ==
    CASE text = "" -> 0
      [] text = "0" -> 0
      [] text = "1" -> One
      [] text = "2" -> 2 * One
      [] text = "0.5" -> 5
      [] text = "1.5" -> 15
      [] text = "2.5" -> 25
      [] text = "-1" -> 0 - One

\* updateQuantity's updater on quantities in tenths
updateQuantityTenths(prev, productId, quantity) ==
    IF quantity < One
    THEN removeFromCartUpdater(prev, productId)
    ELSE [i \in 1..Len(prev) |->
            IF prev[i].productId = productId
            THEN [prev[i] EXCEPT !.quantity = quantity]
            ELSE prev[i]]

\* the carts the product cards' addToCart builds from the empty cart: each
\* product at most once, added once or twice
AddedItems ==
    {[productId |-> id, name |-> ProductName(id), price |-> 500,
      quantity |-> q] : id \in ProductIds, q \in {One, One + One}}
AddedCarts ==
    {<<>>} \cup {<<a>> : a \in AddedItems} \cup
    {c \in {<<a, b>> : a \in AddedItems, b \in AddedItems} :
        c[1].productId # c[2].productId}

\* onChange of the quantity input of a listed item
QuantityChange(productId, text) ==
    /\ HasItem(qcart, productId)
    /\ qcart' = updateQuantityTenths(qcart, productId, Number(text))
    /\ qtyped' = text
    /\ UNCHANGED exceptQuantity

\* onClick of the trash button of a listed item
TrashClick(productId) ==
    /\ HasItem(qcart, productId)
    /\ qcart' = removeFromCartUpdater(qcart, productId)
    /\ qtyped' = qtyped
    /\ UNCHANGED exceptQuantity

(***************************************************************************)
(* The session middleware (lib/supabase/proxy.ts, updateSession).  A path  *)
(* is the sequence of the pieces of its text, so that startsWith compares  *)
(* texts and not route segments; a query is a function from parameter      *)
(* names to values.                                                        *)
(***************************************************************************)
Paths ==
    { <<"/">>,
      <<"/", "account">>,
      <<"/", "account", "/", "orders">>,
      <<"/", "account", "ing">>,
      <<"/", "admin">>,
      <<"/", "admin", "/", "products">>,
      <<"/", "Admin">>,
      <<"/", "login">>,
      <<"/", "cart">>,
      <<"/", "my", "/", "account">>,
      <<"/", "api", "/", "admin">> }

EmptySearch == [k \in {} |-> <<>>]

\* String.prototype.startsWith
StartsWith(text, prefix) ==
    /\ Len(text) >= Len(prefix)
    /\ SubSeq(text, 1, Len(prefix)) = prefix

\* URLSearchParams.set
SearchParamsSet(search, name, value) ==
    [k \in (DOMAIN search) \cup {name} |->
        IF k = name THEN value ELSE search[k]]

AccountOnlyIsProtectedRoute(path) == StartsWith(path, <<"/", "account">>)

IsProtectedRoute(path) ==
    \/ StartsWith(path, <<"/", "account">>)
    \/ StartsWith(path, <<"/", "admin">>)

\* Either NextResponse.redirect(url), url being the request's with the
\* pathname replaced and the next parameter set, or NextResponse.next,
\* carrying the session cookies when the auth client has set them.
UpdateSession(path, search, user, refreshed) ==
    LET request == [pathname |-> path, search |-> search, user |-> user,
                    refreshed |-> refreshed]
    IN  /\ mreq' = request
        /\ mresp' = IF IsProtectedRoute(path) /\ user = NoUser
                    THEN [kind |-> "redirect", pathname |-> <<"/", "login">>,
                          search |-> SearchParamsSet(search, "next", path),
                          cookies |-> FALSE]
                    ELSE [kind |-> "next", pathname |-> path,
                          search |-> search, cookies |-> refreshed]
        /\ UNCHANGED exceptMiddleware

(***************************************************************************)
(* The image utilities (lib/imageUtils) and the ProductImageUpload         *)
(* component.  Every call is a task that stops at each await; an image URL *)
(* is a pair, the URL the upload endpoint answers to task t for its i-th   *)
(* file being <<t, i>>.                                                    *)
(***************************************************************************)
\* how many files one selection or one uploadMultipleImages call carries
MaxFiles == 2

Tasks == {"t1", "t2"}
ImageUrls == {<<"old", 1>>, <<"new", 1>>, <<"new", 2>>}
UploadUrl(t, i) == <<t, i>>

IdleTask ==
    [op |-> "none", pc |-> "idle", productId |-> "none", imageUrl |-> <<>>,
     files |-> 0, i |-> 0, urls |-> <<>>, existingImages |-> <<>>,
     result |-> "none"]

Return(tk) == [tk EXCEPT !.pc = "done", !.result = "ok"]
Throw(tk) == [tk EXCEPT !.pc = "done", !.result = "threw"]

\* uploadProductImage(file, productId): posts the file, then returns data.url
UploadProductImage(t, productId) ==
    /\ task[t].pc = "idle"
    /\ task' = [task EXCEPT ![t] =
                  [IdleTask EXCEPT !.op = "uploadProductImage",
                                   !.pc = "upload", !.productId = productId,
                                   !.files = 1]]
    /\ UNCHANGED <<dbImages, comp>>
    /\ UNCHANGED exceptUtils

UploadProductImageAnswered(t, ok) ==
    /\ task[t].op = "uploadProductImage"
    /\ task[t].pc = "upload"
    /\ task' = [task EXCEPT ![t] =
                  IF ok THEN Return([@ EXCEPT !.urls = <<UploadUrl(t, 1)>>])
                  ELSE Throw(@)]
    /\ UNCHANGED <<dbImages, comp>>
    /\ UNCHANGED exceptUtils

\* handleFileSelect: the files of the selection are uploaded one by one
HandleFileSelect(t, files) ==
    /\ task[t].pc = "idle"
    /\ ~comp.isUploading
    /\ task' = [task EXCEPT ![t] =
                  [IdleTask EXCEPT !.op = "handleFileSelect",
                                   !.pc = "upload",
                                   !.productId = comp.productId,
                                   !.files = files, !.i = 1]]
    /\ comp' = [comp EXCEPT !.error = FALSE, !.isUploading = TRUE]
    /\ UNCHANGED dbImages
    /\ UNCHANGED exceptUtils

FileUploadAnswered(t, ok) ==
    LET tk == task[t]
        last == tk.i = tk.files
        next == [tk EXCEPT !.i = tk.i + 1,
                           !.urls = IF ok
                                    THEN Append(tk.urls, UploadUrl(t, tk.i))
                                    ELSE tk.urls]
    IN  /\ tk.op = "handleFileSelect"
        /\ tk.pc = "upload"
        /\ task' = [task EXCEPT ![t] = IF last THEN Return(next) ELSE next]
        /\ comp' = [productId |-> comp.productId,
                    images |-> IF ok
                               THEN Append(comp.images, UploadUrl(t, tk.i))
                               ELSE comp.images,
                    error |-> IF ok THEN comp.error ELSE TRUE,
                    isUploading |-> ~last]
        /\ UNCHANGED dbImages
        /\ UNCHANGED exceptUtils

AddImageToProduct(t, productId, imageUrl) ==
    /\ task[t].pc = "idle"
    /\ task' = [task EXCEPT ![t] =
                  [IdleTask EXCEPT !.op = "addImageToProduct",
                                   !.pc = "select", !.productId = productId,
                                   !.imageUrl = imageUrl]]
    /\ UNCHANGED <<dbImages, comp>>
    /\ UNCHANGED exceptUtils

RemoveImageFromProduct(t, productId, imageUrl) ==
    /\ task[t].pc = "idle"
    /\ task' = [task EXCEPT ![t] =
                  [IdleTask EXCEPT !.op = "removeImageFromProduct",
                                   !.pc = "select", !.productId = productId,
                                   !.imageUrl = imageUrl]]
    /\ UNCHANGED <<dbImages, comp>>
    /\ UNCHANGED exceptUtils

\* uploadMultipleImages(files, productId): Promise.all over the uploads
UploadMultipleImages(t, files, productId) ==
    /\ task[t].pc = "idle"
    /\ task' = [task EXCEPT ![t] =
                  [IdleTask EXCEPT !.op = "uploadMultipleImages",
                                   !.pc = "upload", !.productId = productId,
                                   !.files = files]]
    /\ UNCHANGED <<dbImages, comp>>
    /\ UNCHANGED exceptUtils

UploadsAnswered(t, allOk) ==
    LET tk == task[t]
    IN  /\ tk.op = "uploadMultipleImages"
        /\ tk.pc = "upload"
        /\ task' = [task EXCEPT ![t] =
                      IF allOk
                      THEN [tk EXCEPT !.pc = "select",
                                      !.urls = [k \in 1..tk.files |->
                                                  UploadUrl(t, k)]]
                      ELSE Throw(tk)]
        /\ UNCHANGED <<dbImages, comp>>
        /\ UNCHANGED exceptUtils

\* from("products").select("images").eq("id", productId).single()
SelectImages(t, fetchError) ==
    LET tk == task[t]
    IN  /\ tk.pc = "select"
        /\ task' = [task EXCEPT ![t] =
                      IF fetchError THEN Throw(tk)
                      ELSE [tk EXCEPT !.pc = "update",
                                      !.existingImages =
                                          dbImages[tk.productId]]]
        /\ UNCHANGED <<dbImages, comp>>
        /\ UNCHANGED exceptUtils

\* the images array each function writes back
UpdatedImages(tk) ==
    CASE tk.op = "addImageToProduct" ->
            Append(tk.existingImages, tk.imageUrl)
      [] tk.op = "removeImageFromProduct" ->
            SelectSeq(tk.existingImages, LAMBDA url : url # tk.imageUrl)
      [] tk.op = "uploadMultipleImages" -> tk.existingImages \o tk.urls

\* from("products").update({ images }).eq("id", productId)
UpdateImages(t, updateError) ==
    LET tk == task[t]
    IN  /\ tk.pc = "update"
        /\ task' = [task EXCEPT ![t] =
                      IF updateError THEN Throw(tk) ELSE Return(tk)]
        /\ dbImages' = IF updateError THEN dbImages
                       ELSE [dbImages EXCEPT ![tk.productId] =
                                UpdatedImages(tk)]
        /\ UNCHANGED comp
        /\ UNCHANGED exceptUtils

(***************************************************************************)
(* Specifications                                                          *)
(***************************************************************************)
CartIdle ==
    /\ page = "home"
    /\ cart = [c \in Instances |-> <<>>]
    /\ totalOrder = [c \in Instances |-> 0]
    /\ storage = Null
    /\ lastCall = Call("navigate", "none", "none", 0, 0)
    /\ added = {}

ImagesIdle ==
    /\ imagesDir = TRUE
    /\ ftpFiles = {}
    /\ ureq = IdleUpload
    /\ dreq = IdleDelete

QuantityIdle ==
    /\ qcart = <<>>
    /\ qtyped = ""

SubmitIdle ==
    /\ form = BlankForm
    /\ loading = FALSE
    /\ sub = IdleSubmission

MiddlewareIdle ==
    /\ mreq = [pathname |-> <<>>, search |-> EmptySearch, user |-> NoUser,
               refreshed |-> FALSE]
    /\ mresp = [kind |-> "none", pathname |-> <<>>, search |-> EmptySearch,
                cookies |-> FALSE]

UtilsIdle ==
    /\ dbImages = [id \in ProductIds |-> <<>>]
    /\ task = [t \in Tasks |-> IdleTask]
    /\ comp = [productId |-> "none", images |-> <<>>, error |-> FALSE,
               isUploading |-> FALSE]

ValidateIdle ==
    /\ vcart = <<>>
    /\ vfetch = FALSE
    /\ vresp = NoResponse

\* an empty database, or one customer who checked out before
ExistingUsers == {[id |-> 100, email |-> "ada@x.io"]}
ExistingProfiles == {[id |-> 100, email |-> "ada@x.io", role |-> "customer"]}

CheckoutIdle ==
    /\ users = {}
    /\ profiles = {}
    /\ orders = <<>>
    /\ emails = <<>>
    /\ log = {}
    /\ req = [r \in Requests |-> IdleRequest]

AllActive(prods) ==
    \A id \in ProductIds : prods[id].is_active /\ ~prods[id].is_deleted

InitCart ==
    /\ CartIdle
    /\ ImagesIdle
    /\ QuantityIdle
    /\ SubmitIdle
    /\ MiddlewareIdle
    /\ UtilsIdle
    /\ ValidateIdle
    /\ CheckoutIdle
    /\ products = [id \in ProductIds |->
                     [price |-> 500, is_active |-> TRUE, is_deleted |-> FALSE]]

NextCart ==
    \/ \E to \in Pages : Navigate(to)
    \/ \E c \in Instances, product \in ProductProps : AddToCart(c, product)
    \/ \E c \in Instances, id \in ProductIds : RemoveFromCart(c, id)
    \/ \E c \in Instances, id \in ProductIds, q \in QtyInputs :
          UpdateQuantity(c, id, q)

SpecCart == InitCart /\ [][NextCart]_vars

InitValidate ==
    /\ CartIdle
    /\ ImagesIdle
    /\ QuantityIdle
    /\ SubmitIdle
    /\ MiddlewareIdle
    /\ UtilsIdle
    /\ CheckoutIdle
    /\ ValidateIdle
    /\ products \in Catalogs

NextValidate ==
    \E c \in ValidationCarts, fetchError \in BOOLEAN : ValidatePOST(c, fetchError)

SpecValidate == InitValidate /\ [][NextValidate]_vars

InitCheckout ==
    /\ CartIdle
    /\ ImagesIdle
    /\ QuantityIdle
    /\ SubmitIdle
    /\ MiddlewareIdle
    /\ UtilsIdle
    /\ ValidateIdle
    /\ products \in {prods \in Catalogs :
                        AllActive(prods) /\ prods["p2"].price = 700}
    /\ \/ /\ users = {}
          /\ profiles = {}
       \/ /\ users = ExistingUsers
          /\ profiles = ExistingProfiles
    /\ orders = <<>>
    /\ emails = <<>>
    /\ log = {}
    /\ req = [r \in Requests |-> IdleRequest]

NextCheckout ==
    \/ \E r \in Requests, in \in CheckoutInputs : Receive(r, in)
    \/ \E r \in Requests, out \in PaystackOutcomes : VerifyPayment(r, out)
    \/ \E r \in Requests, listError \in BOOLEAN : ListUsers(r, listError)
    \/ \E r \in Requests, createError \in BOOLEAN : CreateUser(r, createError)
    \/ \E r \in Requests, profileError \in BOOLEAN, isError \in BOOLEAN :
          InsertProfile(r, profileError, isError)
    \/ \E r \in Requests, emailError \in BOOLEAN : SendWelcomeEmail(r, emailError)
    \/ \E r \in Requests, orderError \in BOOLEAN, isError \in BOOLEAN :
          InsertOrder(r, orderError, isError)

SpecCheckout == InitCheckout /\ [][NextCheckout]_vars

\* The file host has the images directory, with or without an image in it,
\* or does not have it yet.
InitImages ==
    /\ CartIdle
    /\ ValidateIdle
    /\ CheckoutIdle
    /\ products = [id \in ProductIds |->
                     [price |-> 500, is_active |-> TRUE, is_deleted |-> FALSE]]
    /\ \/ /\ imagesDir = FALSE
          /\ ftpFiles = {}
       \/ /\ imagesDir = TRUE
          /\ ftpFiles \in {{}, {[dir |-> ImagesDir, name |-> OldFilename]}}
    /\ ureq = IdleUpload
    /\ dreq = IdleDelete
    /\ QuantityIdle
    /\ SubmitIdle
    /\ MiddlewareIdle
    /\ UtilsIdle

NextImages ==
    \/ \E file \in UploadFiles, timestamp \in Timestamps, random \in Randoms :
          UploadPOST(file, timestamp, random)
    \/ \E connected \in BOOLEAN : UploadReady(connected)
    \/ UploadCwdDone
    \/ \E created \in BOOLEAN : UploadMkdirDone(created)
    \/ \E stored \in BOOLEAN : UploadPutDone(stored)
    \/ \E url \in DeleteUrls : DeletePOST(url)
    \/ \E connected \in BOOLEAN : DeleteReady(connected)
    \/ DeleteCwdDone
    \/ \E deleted \in BOOLEAN : DeleteDone(deleted)

SpecImages == InitImages /\ [][NextImages]_vars

\* The cart page shows a cart the product cards built.
InitQuantity ==
    /\ CartIdle
    /\ ImagesIdle
    /\ ValidateIdle
    /\ CheckoutIdle
    /\ products = [id \in ProductIds |->
                     [price |-> 500, is_active |-> TRUE, is_deleted |-> FALSE]]
    /\ qcart \in AddedCarts
    /\ qtyped = ""
    /\ SubmitIdle
    /\ MiddlewareIdle
    /\ UtilsIdle

NextQuantity ==
    \/ \E id \in ProductIds, text \in TypedValues : QuantityChange(id, text)
    \/ \E id \in ProductIds : TrashClick(id)

SpecQuantity == InitQuantity /\ [][NextQuantity]_vars

\* The shop with its cart and its checkout page: the cards were rendered with
\* ListedPrice, and the table's price of p1 may have changed since.
ListedPrice == 500

InitCheckoutPage ==
    /\ CartIdle
    /\ ImagesIdle
    /\ QuantityIdle
    /\ ValidateIdle
    /\ CheckoutIdle
    /\ SubmitIdle
    /\ MiddlewareIdle
    /\ UtilsIdle
    /\ products \in {prods \in Catalogs :
                        /\ prods["p1"].is_active /\ ~prods["p1"].is_deleted
                        /\ prods["p2"].price = ListedPrice
                        /\ ~prods["p2"].is_deleted}

NextCheckoutPage ==
    \/ \E to \in Pages : Navigate(to)
    \/ \E c \in Instances :
          \E product \in {pp \in ProductProps : pp.price = ListedPrice} :
             AddToCart(c, product)
    \/ \E field \in Fields :
          \E value \in FieldValues(field) : HandleChange(field, value)
    \/ HandleSubmit
    \/ \E networkError \in BOOLEAN, fetchError \in BOOLEAN,
          popupLoaded \in BOOLEAN :
          ValidateAnswered(networkError, fetchError, popupLoaded)
    \/ PopupClose
    \/ \E reference \in PopupRefs : PopupSuccess(reference)
    \/ \E answer \in {"ok", "error", "rejected"} : ProcessAnswered(answer)

SpecCheckoutPage == InitCheckoutPage /\ [][NextCheckoutPage]_vars

InitMiddleware ==
    /\ CartIdle
    /\ ImagesIdle
    /\ QuantityIdle
    /\ SubmitIdle
    /\ MiddlewareIdle
    /\ UtilsIdle
    /\ ValidateIdle
    /\ CheckoutIdle
    /\ products = [id \in ProductIds |->
                     [price |-> 500, is_active |-> TRUE, is_deleted |-> FALSE]]

\* the query is empty, or carries a tab or already a next parameter;
\* supabase.auth.getUser() answers with no user or with the session's
NextMiddleware ==
    \E path \in Paths,
       search \in {EmptySearch, [k \in {"tab"} |-> <<"orders">>],
                   [k \in {"next"} |-> <<"/", "elsewhere">>]},
       user \in {NoUser, 100}, refreshed \in BOOLEAN :
          UpdateSession(path, search, user, refreshed)

SpecMiddleware == InitMiddleware /\ [][NextMiddleware]_vars

\* every product starts with no image or with one
InitImageUtils ==
    /\ CartIdle
    /\ ImagesIdle
    /\ QuantityIdle
    /\ SubmitIdle
    /\ MiddlewareIdle
    /\ ValidateIdle
    /\ CheckoutIdle
    /\ products = [id \in ProductIds |->
                     [price |-> 500, is_active |-> TRUE, is_deleted |-> FALSE]]
    /\ dbImages \in [ProductIds -> {<<>>, << <<"old", 1>> >>}]
    /\ task = [t \in Tasks |-> IdleTask]
    /\ \E productId \in ProductIds :
          comp = [productId |-> productId, images |-> dbImages[productId],
                  error |-> FALSE, isUploading |-> FALSE]

NextImageUtils ==
    \/ \E t \in Tasks, productId \in ProductIds :
          UploadProductImage(t, productId)
    \/ \E t \in Tasks, ok \in BOOLEAN : UploadProductImageAnswered(t, ok)
    \/ \E t \in Tasks, files \in 1..MaxFiles : HandleFileSelect(t, files)
    \/ \E t \in Tasks, ok \in BOOLEAN : FileUploadAnswered(t, ok)
    \/ \E t \in Tasks, productId \in ProductIds, imageUrl \in ImageUrls :
          AddImageToProduct(t, productId, imageUrl)
    \/ \E t \in Tasks, productId \in ProductIds, imageUrl \in ImageUrls :
          RemoveImageFromProduct(t, productId, imageUrl)
    \/ \E t \in Tasks, files \in 1..MaxFiles, productId \in ProductIds :
          UploadMultipleImages(t, files, productId)
    \/ \E t \in Tasks, allOk \in BOOLEAN : UploadsAnswered(t, allOk)
    \/ \E t \in Tasks, fetchError \in BOOLEAN : SelectImages(t, fetchError)
    \/ \E t \in Tasks, updateError \in BOOLEAN :
          UpdateImages(t, updateError)

SpecImageUtils == InitImageUtils /\ [][NextImageUtils]_vars

(***************************************************************************)
(* Properties                                                              *)
(***************************************************************************)
\* the ids of the entries of a cart
IdsOf(c) == {c[i].productId : i \in 1..Len(c)}

\* the cart the storage holds, empty when the key is absent
StoredCart == IF storage = Null THEN <<>> ELSE JSONParse(storage[1])

\* the sum of price x quantity over the entries of c
SumOfItems(c) ==
    LET S[n \in 0..Len(c)] ==
            IF n = 0 THEN 0 ELSE S[n - 1] + c[n].price * c[n].quantity
    IN S[Len(c)]

\* the sum of current database price x quantity over the entries of c
SumAtDbPrices(c, prods) ==
    LET S[n \in 0..Len(c)] ==
            IF n = 0 THEN 0
            ELSE S[n - 1] + prods[c[n].productId].price * c[n].quantity
    IN S[Len(c)]

\* the requests whose payment the provider reported as not successful
Rejected(r) == req[r].paystack \in PaystackOutcomes \ {"success", "throw"}

\* request r listed the accounts and found one with its email
MatchedExisting(r) ==
    /\ req[r].pc \in {"order", "done"}
    /\ \E u \in req[r].listed : u.email = req[r].email

\* C1: a checkout request whose payment the provider reports as anything but
\* success creates no account, no profile and no order, sends no welcome
\* email and is answered with status 400; while only such requests were
\* verified the database holds no row that was not there at the start.
C1_FailClosed ==
    /\ \A r \in Requests :
          Rejected(r) =>
             /\ req[r].pc = "done"
             /\ req[r].status = 400
             /\ req[r].newUser = NoUser
             /\ req[r].newProfile = NoUser
             /\ req[r].emailed = 0
             /\ req[r].order = 0
    /\ (\A r \in Requests : req[r].paystack # "success") =>
             /\ orders = <<>>
             /\ emails = <<>>
             /\ users \subseteq ExistingUsers
             /\ profiles \subseteq ExistingProfiles

C1_Witness ==
    /\ \E r \in Requests : req[r].paystack = "pending" /\ req[r].status = 400
    /\ \E r \in Requests : req[r].paystack = "status_false" /\ req[r].status = 400

\* C2: a request with a verified payment whose email matched no account and
\* whose every step succeeded created one account, one profile with role
\* customer and one order; the order is pending, carries the submitted
\* payment reference and the id of the new account.
C2_NewCustomerCheckout ==
    \A r \in Requests :
       (req[r].status = 200 /\ ~MatchedExisting(r)) =>
          /\ req[r].paystack = "success"
          /\ req[r].newUser # NoUser
          /\ Cardinality({u \in users : u.email = req[r].email}) = 1
          /\ \A u \in users : u.email = req[r].email => u.id = req[r].newUser
          /\ Cardinality({p \in profiles : p.id = req[r].newUser}) = 1
          /\ \A p \in profiles :
                p.id = req[r].newUser =>
                   p.role = "customer" /\ p.email = req[r].email
          /\ req[r].order \in 1..Len(orders)
          /\ \A q \in Requests \ {r} : req[q].order # req[r].order
          /\ orders[req[r].order].status = "pending"
          /\ orders[req[r].order].payment_ref = req[r].payment_ref
          /\ orders[req[r].order].user_id = req[r].newUser
          /\ Len(orders) = Cardinality({q \in Requests : req[q].status = 200})

C2_Witness ==
    \E r \in Requests :
       /\ req[r].status = 200
       /\ ~MatchedExisting(r)
       /\ req[r].newUser # NoUser
       /\ Len(orders) = 1

C4_OrderTotalIsServerPriced ==
    \A i \in 1..Len(orders) :
       orders[i].total_amount = SumAtDbPrices(orders[i].items, products)

\* C5: when a step of the orchestrator throws, the error message of the
\* response is not the message of the upstream error.
C5_GenericFailureMessage ==
    \A r \in Requests :
       req[r].thrown # NoError => req[r].error # req[r].thrown.message

\* C6: after every cart operation the total an instance returns is the sum
\* of price x quantity over the entries its cart holds now.
C6_TotalIsSumOfItems ==
    \A c \in Instances : totalOrder[c] = SumOfItems(cart[c])

C6_Witness ==
    /\ lastCall.op = "updateQuantity"
    /\ lastCall.quantity >= 1
    /\ Len(cart[CartPage]) = 2
    /\ cart[CartPage] # lastCall.prev
    /\ totalOrder[CartPage] > 0

\* C7: no cart, held by an instance or stored, has two entries with the same
\* productId; after addToCart the cart has one entry for the product, with
\* the quantity it had before plus one (2 when it was added before once).
C7_UniqueProductIds ==
    /\ \A c \in Instances :
          \A i, j \in 1..Len(cart[c]) :
             cart[c][i].productId = cart[c][j].productId => i = j
    /\ \A i, j \in 1..Len(StoredCart) :
          StoredCart[i].productId = StoredCart[j].productId => i = j
    /\ lastCall.op = "addToCart" =>
          LET now == cart[lastCall.c]
              was == lastCall.prev
              id == lastCall.productId
          IN /\ Cardinality({i \in 1..Len(now) : now[i].productId = id}) = 1
             /\ \A i \in 1..Len(now) :
                   now[i].productId = id =>
                      now[i].quantity =
                         IF \E k \in 1..Len(was) : was[k].productId = id
                         THEN 1 + (CHOOSE n \in 1..MaxQty :
                                      \E k \in 1..Len(was) :
                                         /\ was[k].productId = id
                                         /\ was[k].quantity = n)
                         ELSE 1

C7_Witness ==
    /\ lastCall.op = "addToCart"
    /\ \E k \in 1..Len(lastCall.prev) :
          /\ lastCall.prev[k].productId = lastCall.productId
          /\ lastCall.prev[k].quantity = 1
    /\ \E i \in 1..Len(cart[lastCall.c]) :
          /\ cart[lastCall.c][i].productId = lastCall.productId
          /\ cart[lastCall.c][i].quantity = 2

\* C8: every product added and not removed since is in the cart of every
\* mounted instance and in the stored cart.
C8_SharedStore ==
    \A id \in added :
       /\ \A c \in Mounted : id \in IdsOf(cart[c])
       /\ id \in IdsOf(StoredCart)

\* C9: updateQuantity(id, qty) with qty < 1 leaves the cart removeFromCart(id)
\* leaves: no entry for id, every other entry as it was; with qty >= 1 the
\* entry of id has quantity qty and every other entry is as it was.
C9_SetQuantity ==
    lastCall.op = "updateQuantity" =>
       LET now == cart[lastCall.c]
           was == lastCall.prev
           id == lastCall.productId
           qty == lastCall.quantity
       IN IF qty < 1
          THEN /\ id \notin IdsOf(now)
               /\ {now[i] : i \in 1..Len(now)} =
                     {was[i] : i \in {k \in 1..Len(was) : was[k].productId # id}}
               /\ Len(now) =
                     Cardinality({k \in 1..Len(was) : was[k].productId # id})
               /\ now = removeFromCartUpdater(was, id)
          ELSE /\ Len(now) = Len(was)
               /\ \A i \in 1..Len(was) :
                     IF was[i].productId = id
                     THEN /\ now[i].quantity = qty
                          /\ now[i].productId = id
                          /\ now[i].price = was[i].price
                          /\ now[i].name = was[i].name
                     ELSE now[i] = was[i]

C9_Witness ==
    /\ lastCall.op = "updateQuantity"
    /\ lastCall.quantity < 1
    /\ Len(lastCall.prev) = 2
    /\ lastCall.productId \in IdsOf(lastCall.prev)
    /\ Len(cart[lastCall.c]) = 1

\* C10: when the price fetch succeeds and every requested product is an
\* active, non-deleted row, the validation endpoint answers 200 with
\* validatedTotal the sum of database price x requested quantity.
C10_ValidatedTotal ==
    (/\ vresp # NoResponse
     /\ ~vfetch
     /\ \A i \in 1..Len(vcart) :
           /\ vcart[i].productId \in ProductIds
           /\ products[vcart[i].productId].is_active
           /\ ~products[vcart[i].productId].is_deleted) =>
       /\ vresp.status = 200
       /\ vresp.validatedTotal = SumAtDbPrices(vcart, products)

C10_Witness ==
    /\ vresp.status = 200
    /\ Len(vcart) = 2
    /\ vcart[1].productId # vcart[2].productId
    /\ \E i \in 1..Len(vcart) :
          vcart[i].price # products[vcart[i].productId].price
    /\ vresp.validatedTotal = SumAtDbPrices(vcart, products)
    /\ vresp.validatedTotal # SumOfItems(vcart)

\* entry i of cart c names a product that is no active, non-deleted row
Absent(c, i, prods) ==
    \/ c[i].productId \notin DOMAIN prods
    \/ ~prods[c[i].productId].is_active
    \/ prods[c[i].productId].is_deleted

\* C11: when the price fetch succeeds and some requested product is not an
\* active, non-deleted row, the validation endpoint answers 400 with an
\* error naming the first such product of the cart and with no validatedTotal.
C11_MissingProductRejected ==
    (/\ vresp # NoResponse
     /\ ~vfetch
     /\ \E i \in 1..Len(vcart) : Absent(vcart, i, products)) =>
       /\ vresp.status = 400
       /\ vresp.validatedTotal = NoTotal
       /\ vresp.error = "Product not found"
       /\ \E i \in 1..Len(vcart) :
             /\ Absent(vcart, i, products)
             /\ \A k \in 1..(i - 1) : ~Absent(vcart, k, products)
             /\ vresp.productId = vcart[i].productId

C11_Witness ==
    /\ vresp.status = 400
    /\ Len(vcart) = 2
    /\ ~Absent(vcart, 1, products)
    /\ Absent(vcart, 2, products)
    /\ vcart[2].productId \in ProductIds
    /\ vresp.productId = vcart[2].productId

\* the image file of the upload request on the file host
UploadedFile == [dir |-> ImagesDir, name |-> ureq.filename]

\* C16: the upload endpoint answers 400, with no command sent to the file
\* host, exactly when the request has no file, a type outside the four image
\* types, or a size above 5 MiB; a file of exactly 5 MiB is not refused.
C16_UploadRejectedBeforeConnect ==
    ureq.pc # "idle" =>
        IF \/ ureq.file = NoFile
           \/ ureq.file.type \notin
                  {"image/jpeg", "image/png", "image/webp", "image/gif"}
           \/ ureq.file.size > 5242880
        THEN ureq.status = 400 /\ ureq.trace = <<>> /\ ureq.pc = "done"
        ELSE ureq.status # 400 /\ ureq.trace # <<>>

C16_Witness ==
    /\ ureq.status = 400
    /\ ureq.file.type = "image/png"
    /\ ureq.file.size = 5242881

\* C17: when the upload answers success, the file is in /public/images under
\* the generated name (until a delete removes it) and the url is the base
\* url followed by that name.
C17_UploadedIntoImagesDir ==
    (ureq.status = 200 /\ dreq.removed = {}) =>
        /\ UploadedFile \in ftpFiles
        /\ ureq.url = BaseUrl \o ureq.filename

\* C18: a delete request without url answers 400 with no command sent; a
\* delete request for the url of a successful upload works on the uploaded
\* name; and a successful delete removes that one file from /public/images
\* and nothing else.
C18_DeleteInvertsUpload ==
    /\ [](dreq.pc # "idle" /\ dreq.url = NoUrl =>
              dreq.status = 400 /\ dreq.trace = <<>>)
    /\ [](dreq.pc # "idle" /\ ureq.status = 200 /\ dreq.url = ureq.url =>
              dreq.filename = ureq.filename)
    /\ [][dreq.pc # "done" /\ dreq'.status = 200 =>
              /\ [dir |-> ImagesDir, name |-> dreq.filename] \in ftpFiles
              /\ ftpFiles' = ftpFiles \
                     {[dir |-> ImagesDir, name |-> dreq.filename]}]_vars

C18_Witness ==
    /\ ureq.status = 200
    /\ dreq.url = ureq.url
    /\ dreq.status = 200
    /\ UploadedFile \notin ftpFiles
    /\ [dir |-> ImagesDir, name |-> OldFilename] \in ftpFiles

\* how many times a call appears in a trace
Count(trace, call) == Cardinality({i \in 1..Len(trace) : trace[i] = call})

\* C19: no request makes an external call twice, and a request in which such
\* a call failed has ended, the failed call being the last one it made.
C19_FailureIsTerminal ==
    /\ \A r \in Requests :
          /\ \A i \in 1..Len(req[r].calls) :
                Count(req[r].calls, req[r].calls[i]) = 1
          /\ req[r].failed # {} =>
                /\ req[r].pc = "done"
                /\ req[r].failed = {req[r].calls[Len(req[r].calls)]}
    /\ \A call \in {"connect", "put"} : Count(ureq.trace, call) <= 1
    /\ \A call \in {"connect", "delete"} : Count(dreq.trace, call) <= 1
    /\ ureq.status = 500 => ureq.pc = "done"
    /\ dreq.status = 500 => dreq.pc = "done"

\* C20: every request answered with success has an order row of its own
\* carrying its payment reference, also when another order carries the same
\* reference; and the order insert of a request is refused only when the
\* service is unavailable or the user has no profile row.
C20_DuplicateReferenceAccepted ==
    /\ [](\A r \in Requests :
             req[r].status = 200 =>
                /\ req[r].order \in 1..Len(orders)
                /\ orders[req[r].order].payment_ref = req[r].payment_ref
                /\ \A q \in Requests \ {r} : req[q].order # req[r].order)
    /\ [][\A r \in Requests :
             (req[r].pc = "order" /\ req'[r].pc = "done"
                 /\ req'[r].status # 200) =>
                \/ req'[r].thrown.message = "orders: service unavailable"
                \/ ~\E p \in profiles : p.id = req[r].targetUser]_vars

C20_Witness ==
    /\ \A r \in Requests : req[r].status = 200 /\ req[r].paystack = "success"
    /\ \A r, q \in Requests : req[r].payment_ref = req[q].payment_ref
    /\ Len(orders) = 2
    /\ orders[1].payment_ref = orders[2].payment_ref

\* C14: after a cart operation that leaves the calling instance's cart
\* non-empty, the storage holds the serialization of that cart and parses
\* back to it; and a (re)load of a page right after it gives every mounted
\* instance exactly that cart.
C14_StorageMirrorsCart ==
    /\ []((lastCall.op # "navigate" /\ Len(cart[lastCall.c]) > 0) =>
             /\ storage = <<JSONStringify(cart[lastCall.c])>>
             /\ LoadCart(storage) = cart[lastCall.c])
    /\ [][(lastCall.op # "navigate" /\ Len(cart[lastCall.c]) > 0
              /\ lastCall'.op = "navigate") =>
             \A c \in MountedOn(page') : cart'[c] = cart[lastCall.c]]_vars

C14_Witness ==
    /\ lastCall.op = "navigate"
    /\ page = "cart"
    /\ Len(cart[CartPage]) = 2
    /\ \E i \in 1..2 : cart[CartPage][i].quantity = 2
    /\ storage = <<JSONStringify(cart[CartPage])>>

\* C15: every item of the cart has a whole-number quantity of at least 1.
C15_IntegerQuantity ==
    \A i \in 1..Len(qcart) :
       /\ qcart[i].quantity >= One
       /\ qcart[i].quantity % One = 0

\* C12: the payment popup is opened, once, only by a submission whose
\* validation request was answered ok with a total within 0.01 of the total
\* the page held, and process-checkout is requested only from an open popup;
\* a submission whose validation failed or whose totals differ opens no popup
\* and sends no process-checkout request.
C12_PopupOnlyAfterValidation ==
    /\ [](sub.pc \in {"popup", "processing"} =>
             /\ sub.validated.status = 200
             /\ Abs(sub.validated.validatedTotal - sub.total) * 100 <= 1
             /\ sub.popups = 1)
    /\ [](sub.requests <= sub.popups /\ sub.popups <= sub.validations
             /\ sub.validations <= 1)
    /\ [][sub'.popups > sub.popups =>
             /\ sub.pc = "validating"
             /\ \A i \in 1..Len(sub.cart) :
                   /\ products[sub.cart[i].productId].is_active
                   /\ ~products[sub.cart[i].productId].is_deleted
             /\ Abs(SumAtDbPrices(sub.cart, products) - sub.total) * 100 <= 1]_vars
    /\ [][sub'.requests > sub.requests => sub.pc = "popup"]_vars

C12_Witness ==
    /\ sub.pc = "processing"
    /\ sub.requests = 1
    /\ sub.validated.status = 200
    /\ Len(sub.cart) = 2

\* C13: when process-checkout answers ok the stored cart is removed, and the
\* next cart written to the storage after that holds nothing but one newly
\* added item; when process-checkout does not answer ok the stored cart is
\* left as it is.
C13_CartDestroyedOnSuccess ==
    [][/\ (sub.pc = "processing" /\ sub'.response = "ok") => storage' = Null
       /\ (sub.pc = "processing" /\ sub'.pc = "done" /\ sub'.response # "ok")
             => storage' = storage
       /\ (sub.response = "ok" /\ storage = Null /\ storage' # Null) =>
             /\ Len(storage'[1]) = 1
             /\ storage'[1][1].quantity = 1]_vars

\* C24: addToCart for a product the cart holds adds 1 to the quantity of its
\* entry and changes nothing else, not the entry's name or price either, also
\* when the product passed carries another price; addToCart for a product the
\* cart does not hold appends one entry with quantity 1 and the price passed,
\* and leaves the entries before it as they were.
C24_AddItemFrame ==
    lastCall.op = "addToCart" =>
       LET now == cart[lastCall.c]
           was == lastCall.prev
           id == lastCall.productId
       IN IF id \in IdsOf(was)
          THEN /\ Len(now) = Len(was)
               /\ \A i \in 1..Len(was) :
                     IF was[i].productId = id
                     THEN /\ now[i].quantity = was[i].quantity + 1
                          /\ now[i].productId = id
                          /\ now[i].name = was[i].name
                          /\ now[i].price = was[i].price
                     ELSE now[i] = was[i]
          ELSE /\ Len(now) = Len(was) + 1
               /\ \A i \in 1..Len(was) : now[i] = was[i]
               /\ now[Len(now)].productId = id
               /\ now[Len(now)].quantity = 1
               /\ now[Len(now)].price = lastCall.price

C24_Witness ==
    /\ lastCall.op = "addToCart"
    /\ Len(lastCall.prev) = 2
    /\ \E k \in 1..2 :
          /\ lastCall.prev[k].productId = lastCall.productId
          /\ lastCall.prev[k].price # lastCall.price
          /\ cart[lastCall.c][k].price = lastCall.prev[k].price
          /\ cart[lastCall.c][k].quantity = 2

\* C27: after removeFromCart, or updateQuantity with a quantity below 1, has
\* emptied the cart, the cart a reload restores from the storage is empty.
C27_RemovedNeverReappears ==
    (/\ lastCall.op \in {"removeFromCart", "updateQuantity"}
     /\ Len(lastCall.prev) > 0
     /\ cart[lastCall.c] = <<>>) => LoadCart(storage) = <<>>

\* C25: a click on the submit button while name, email or phone is empty or
\* white space only starts nothing: no validation request, no popup, no
\* process-checkout request, and loading stays false.
C25_BlankFormRejected ==
    [][(/\ sub.pc \in {"idle", "done"}
        /\ sub' # sub
        /\ \E field \in Fields : form[field] \in {"", " "}) =>
          /\ sub'.pc = "done"
          /\ sub'.validations = 0
          /\ sub'.popups = 0
          /\ sub'.requests = 0
          /\ loading' = FALSE
          /\ storage' = storage]_vars

C25_Witness ==
    /\ page = "checkout"
    /\ form = [name |-> "Ada", email |-> " ", phone |-> "080"]
    /\ sub.pc = "done"
    /\ sub.alert = "Please fill in Name, Email, and Phone."
    /\ sub.validations = 0
    /\ ~loading

\* C26: a submission is started only while loading is false, and once the
\* handlers of an attempt that did not end in a successful order have all
\* returned, loading is false again on the page that made it.
C26_LoadingReturnsToFalse ==
    /\ sub.pc \in {"validating", "popup", "processing"} /\ sub.attached
          => loading
    /\ (/\ page = "checkout"
        /\ sub.pc = "done"
        /\ sub.validations = 1
        /\ sub.response # "ok") => ~loading

C28_OrdersReferenceProfile ==
    \A i \in 1..Len(orders) : \E p \in profiles : p.id = orders[i].user_id

C28_Witness ==
    \E r, q \in Requests :
       /\ req[r].email = req[q].email
       /\ req[r].newUser # NoUser
       /\ req[r].failed = {"profile"}
       /\ ~\E p \in profiles : p.id = req[r].newUser
       /\ req[q].targetUser = req[r].newUser
       /\ req[q].failed = {"order"}
       /\ req[q].status = 500
       /\ orders = <<>>

\* the messages of the failures that are the service being unavailable
ServiceFailures ==
    {"fetch failed", "listUsers: bad JWT", "createUser: service unavailable",
     "profiles: service unavailable", "orders: service unavailable"}

\* C29: when two requests with verified payments and the same email, for
\* which no account existed before, have both ended with no service having
\* been unavailable, one account and one profile exist for the email and
\* each request has an order of its own.
C29_ProvisioningIdempotent ==
    \A r, q \in Requests :
       (/\ r # q
        /\ req[r].pc = "done" /\ req[q].pc = "done"
        /\ req[r].email = req[q].email
        /\ req[r].email \notin {u.email : u \in ExistingUsers}
        /\ req[r].paystack = "success" /\ req[q].paystack = "success"
        /\ req[r].thrown.message \notin ServiceFailures
        /\ req[q].thrown.message \notin ServiceFailures
        /\ req[r].failed \cup req[q].failed \subseteq {"create", "profile", "order"})
       => /\ Cardinality({u \in users : u.email = req[r].email}) = 1
          /\ Cardinality({p \in profiles : p.email = req[r].email}) = 1
          /\ req[r].status = 200 /\ req[q].status = 200
          /\ req[r].order # 0 /\ req[q].order # 0
          /\ req[r].order # req[q].order

\* the elements of a sequence
Range(seq) == {seq[k] : k \in 1..Len(seq)}

\* the request's path begins with the text /account or the text /admin
UnderAccountOrAdmin(path) ==
    /\ Len(path) >= 2
    /\ path[1] = "/"
    /\ path[2] \in {"account", "admin"}

\* C22: a request under /account or /admin with no authenticated user is
\* redirected to /login with next set to the requested path; every other
\* request is passed through unchanged, never redirected.
C22_MiddlewareRedirects ==
    mresp.kind # "none" =>
        IF UnderAccountOrAdmin(mreq.pathname) /\ mreq.user = NoUser
        THEN /\ mresp.kind = "redirect"
             /\ mresp.pathname = <<"/", "login">>
             /\ "next" \in DOMAIN mresp.search
             /\ mresp.search["next"] = mreq.pathname
        ELSE /\ mresp.kind = "next"
             /\ mresp.pathname = mreq.pathname
             /\ mresp.search = mreq.search

\* an anonymous request for an admin page, already carrying a next
\* parameter, was redirected
C22_Witness ==
    /\ mreq.pathname = <<"/", "admin", "/", "products">>
    /\ mreq.user = NoUser
    /\ "next" \in DOMAIN mreq.search
    /\ mresp.kind = "redirect"

\* the URLs a finished task uploaded
Uploaded(t) == Range(task[t].urls)

\* C21: once an upload through uploadProductImage, called directly or by
\* the ProductImageUpload component, has succeeded for a product, the URL
\* it returned is in that product's images list in the database.
C21_UploadedUrlSaved ==
    \A t \in Tasks :
        (/\ task[t].op \in {"uploadProductImage", "handleFileSelect"}
         /\ task[t].pc = "done"
         /\ task[t].result = "ok")
        => Uploaded(t) \subseteq Range(dbImages[task[t].productId])

ImagesListOps ==
    {"addImageToProduct", "removeImageFromProduct", "uploadMultipleImages"}

\* the URLs the change of a task is about
Touched(t) ==
    IF task[t].op = "uploadMultipleImages" THEN Range(task[t].urls)
    ELSE {task[t].imageUrl}

\* the images list shows the change of task t
Reflects(images, t) ==
    IF task[t].op = "removeImageFromProduct"
    THEN task[t].imageUrl \notin Range(images)
    ELSE Touched(t) \subseteq Range(images)

\* C30: when two updates of the images list of one product, about
\* different URLs, have both run to their end, whatever their interleaving,
\* the list reflects both changes.
C30_NoLostImageUpdate ==
    \A t1 \in Tasks, t2 \in Tasks :
        (/\ t1 # t2
         /\ task[t1].op \in ImagesListOps
         /\ task[t2].op \in ImagesListOps
         /\ task[t1].productId = task[t2].productId
         /\ task[t1].result = "ok"
         /\ task[t2].result = "ok"
         /\ Touched(t1) \cap Touched(t2) = {})
        => /\ Reflects(dbImages[task[t1].productId], t1)
           /\ Reflects(dbImages[task[t1].productId], t2)

====
